---- MODULE Spec2Model ----
(***************************************************************************)
(* State-machine model of libzerocoin's ArithmeticCircuit                  *)
(* (src/src/libzerocoin/ArithmeticCircuit.cpp): witness assignment,        *)
(* constraint template, challenge folding and check().                     *)
(*                                                                         *)
(* Vectors and matrices are functions over 0..n-1 so that every index is   *)
(* the index the C++ code uses.                                            *)
(***************************************************************************)
EXTENDS Integers, Naturals, Sequences, FiniteSets, TLC

VARIABLES
    ZKP_SERIALSIZE,   \* L: bit length of the randomness (compile-time parameter)
    ZKP_M,            \* grid rows (compile-time parameter)
    ZKP_N,            \* grid columns (compile-time parameter)
    coin,             \* the PrivateCoin handed to the circuit: serial, randomness
    A, B, C,          \* witness matrices, ZKP_M x ZKP_N
    wA, wB, wC,       \* constraint weights: 4L matrices each
    K,                \* constraint constants
    YPowers, YDash, y_vec_neg,
    wAj, wBj, wCj,    \* aggregated weights
    Kconst,
    y,
    serialNumber, randomness, r_bits,
    wired,            \* setWireValues has run
    constrained,      \* setConstraints has run
    pc,               \* "setup", "folded", "checked"
    overwritten,      \* A, B, C were replaced wholesale by a claimed witness
    corrupted,        \* "none", or the matrix ("A", "B", "C") of which one cell was overwritten
    result,           \* what the caller of check() observed
    ZKP_wA, ZKP_wB, ZKP_wC, ZKP_K,   \* the template held by the shared ZerocoinParams
    other,            \* a second circuit built from the same ZerocoinParams, at rest
    active,           \* which of the two circuits the variables above describe
    s_a1, s_a2, s_b1, s_b2, s_c1, s_c2   \* the sparse rows set_s_poly fills

vars == <<ZKP_SERIALSIZE, ZKP_M, ZKP_N, coin, A, B, C, wA, wB, wC, K,
          YPowers, YDash, y_vec_neg, wAj, wBj, wCj, Kconst, y,
          serialNumber, randomness, r_bits, wired, constrained, pc,
          overwritten, corrupted, result, ZKP_wA, ZKP_wB, ZKP_wC, ZKP_K,
          other, active, s_a1, s_a2, s_b1, s_b2, s_c1, s_c2>>

(***************************************************************************)
(* Parameters of the toy group of the end-to-end scenario.                 *)
(***************************************************************************)
q == 23      \* serialNumberSoKCommitmentGroup.groupOrder
g == 2       \* coinCommitmentGroup.g  (a in the code)
h == 3       \* coinCommitmentGroup.h  (b in the code)
ZKP_PADS == 2

(***************************************************************************)
(* Bounds of the model.                                                    *)
(***************************************************************************)
MinSerial == 4
MaxSerial == 5
MinChallenge == 6
MaxChallenge == 7
MaxClaimed == 2
MaxOtherRandomness == 1
MaxFolds == 2
MinGridL == 2
MaxGridL == 4
MaxGridM == 3
MinGridN == 2
MaxGridN == 5

\* <<ZKP_SERIALSIZE, ZKP_M, ZKP_N>>: grids with M*N >= 2L-1 on which every
\* cell the template builder writes lies inside the grid.
Grids == { <<3, 2, 4>>, <<3, 3, 3>>, <<4, 2, 6>> }

\* <<ZKP_SERIALSIZE, ZKP_M, ZKP_N>>: every grid within the bounds with N >= 2
\* and M*N >= 2L-1 wire slots
TemplateGrids ==
    { gr \in (MinGridL..MaxGridL) \X (1..MaxGridM) \X (MinGridN..MaxGridN) :
        gr[2] * gr[3] >= 2 * gr[1] - 1 }

Serials == MinSerial..MaxSerial
Challenges == MinChallenge..MaxChallenge

(***************************************************************************)
(* CBigNum arithmetic.                                                     *)
(***************************************************************************)
\* operator% : canonical residue in [0, q)
Mod(x) == x % q

mul_mod(a, b) == (a * b) % q

RECURSIVE pow(_, _)
pow(b, e) == IF e = 0 THEN 1 ELSE b * pow(b, e - 1)

RECURSIVE PowNat(_, _)
PowNat(b, e) == IF e = 0 THEN 1 % q ELSE (b * PowNat(b, e - 1)) % q

inverse(b) == CHOOSE z \in 0..(q - 1) : (b * z) % q = 1 % q

\* pow_mod: a negative exponent exponentiates the modular inverse of the base
pow_mod(b, e) == IF e >= 0 THEN PowNat(b, e) ELSE PowNat(inverse(b), 0 - e)

(***************************************************************************)
(* Vector helpers.                                                         *)
(***************************************************************************)
Size(v) == Cardinality(DOMAIN v)

push_back(v, x) == [i \in 0..Size(v) |-> IF i < Size(v) THEN v[i] ELSE x]

ZeroVector(n) == [j \in 0..(n - 1) |-> 0]

ZeroMatrix(m, n) == [i \in 0..(m - 1) |-> ZeroVector(n)]

unit_vector(n, j) == [c \in 0..(n - 1) |-> IF c = j THEN 1 ELSE 0]

vectorTimesConstant(u, k) == [c \in DOMAIN u |-> mul_mod(u[c], k)]

RECURSIVE DotUpTo(_, _, _)
DotUpTo(u, v, n) == IF n = 0 THEN 0 ELSE (DotUpTo(u, v, n - 1) + u[n - 1] * v[n - 1]) % q

dotProduct(u, v) == DotUpTo(u, v, Size(u))

(***************************************************************************)
(* PrivateCoin::getRandomnessBits: bit i of the randomness, LSB first.     *)
(***************************************************************************)
getRandomnessBits(r, len) == [i \in 0..(len - 1) |-> (r \div pow(2, i)) % 2]

(***************************************************************************)
(* setWireValues: the x and product registers of the accumulation loop.    *)
(* XReg(bits, k) is the value held by x when the loop multiplies it into   *)
(* product for the k-th time; ProductReg(bits, k) is product after that.   *)
(***************************************************************************)
\* variant of XReg: the exponent of h grows by one per step instead of doubling
XReg_NoSquaring(bits, k) ==
    IF k = 0 THEN bits[0] * (h - 1) + 1
    ELSE bits[k] * (pow_mod(h, k + 1) - 1) + 1

XReg(bits, k) ==
    IF k = 0 THEN bits[0] * (h - 1) + 1
    ELSE bits[k] * (pow_mod(h, pow(2, k)) - 1) + 1

RECURSIVE ProductReg(_, _)
ProductReg(bits, k) ==
    IF k = 0 THEN mul_mod(1, XReg(bits, 0))
    ELSE mul_mod(ProductReg(bits, k - 1), XReg(bits, k))

\* value stored in A at flattened wire index i (0 <= i <= 2L-2)
WireA(bits, S, N, i) ==
    IF i < N THEN Mod(bits[i])
    ELSE IF i = 2 * N - 2
         THEN mul_mod(ProductReg(bits, i - N), pow_mod(g, S))
         ELSE ProductReg(bits, i - N)

\* value stored in B at flattened wire index i
WireB(bits, S, N, i) ==
    IF i < N THEN Mod(bits[i] - 1)
    ELSE Mod(XReg(bits, i - N + 1))

\* variant of WireC: the last wire's C is not multiplied by g^S
WireC_NoSerialFactor(bits, S, N, i) ==
    IF i < N THEN 0
    ELSE mul_mod(ProductReg(bits, i - N), Mod(XReg(bits, i - N + 1)))

\* value stored in C at flattened wire index i
WireC(bits, S, N, i) ==
    IF i < N THEN 0
    ELSE LET c == mul_mod(ProductReg(bits, i - N), Mod(XReg(bits, i - N + 1)))
         IN  IF i = 2 * N - 2 THEN mul_mod(c, pow_mod(g, S)) ELSE c

\* the matrix after the two loops: wires 0..2L-2 written at (i / n, i % n),
\* every other cell left as it was
AssignWires(old, W, N, m, n) ==
    [row \in 0..(m - 1) |-> [col \in 0..(n - 1) |->
        IF row * n + col <= 2 * N - 2 THEN W[row * n + col] ELSE old[row][col]]]

(***************************************************************************)
(* setPreConstraints(params, wA, wB, wC, K), with the code's local names   *)
(* N = ZKP_SERIALSIZE, m = ZKP_M, n = ZKP_N.  Every (template row, grid    *)
(* row) vector is written at most once, so each matrix is given per entry. *)
(***************************************************************************)
PreWA(N, m, n) ==
    [i \in 0..(4 * N - 1) |-> [row \in 0..(m - 1) |->
        IF i < N
        THEN IF row = i \div n THEN unit_vector(n, (i + 1) % n) ELSE ZeroVector(n)
        ELSE IF i >= 2 * N /\ i < 3 * N - 1
        THEN LET k == 2 + (i - 2 * N)
                 x == pow_mod(h, pow(2, k - 1)) - 1
             IN  IF row = k \div n THEN vectorTimesConstant(unit_vector(n, k % n), x)
                 ELSE ZeroVector(n)
        ELSE IF i = 3 * N - 1
        THEN IF row = (N + 1) \div n THEN unit_vector(n, (N + 1) % n) ELSE ZeroVector(n)
        ELSE IF i >= 3 * N /\ i < 4 * N - 2
        THEN LET k == N + 2 + (i - 3 * N)
             IN  IF row = k \div n THEN unit_vector(n, k % n) ELSE ZeroVector(n)
        ELSE ZeroVector(n)]]

PreWB(N, m, n) ==
    [i \in 0..(4 * N - 1) |-> [row \in 0..(m - 1) |->
        IF i < N
        THEN IF row = i \div n
             THEN vectorTimesConstant(unit_vector(n, (i + 1) % n), 0 - 1)
             ELSE ZeroVector(n)
        ELSE IF i >= 2 * N /\ i < 3 * N - 1
        THEN LET ell == N + 1 + (i - 2 * N)
             IN  IF row = ell \div n
                 THEN vectorTimesConstant(unit_vector(n, ell % n), 0 - 1)
                 ELSE ZeroVector(n)
        ELSE IF i = 3 * N - 1
        THEN IF row = 0 THEN vectorTimesConstant(unit_vector(n, 1), 1 - h)
             ELSE ZeroVector(n)
        ELSE IF i = 4 * N - 2
        THEN IF row = (2 * N) \div n THEN unit_vector(n, (2 * N) % n) ELSE ZeroVector(n)
        ELSE ZeroVector(n)]]

PreWC(N, m, n) ==
    [i \in 0..(4 * N - 1) |-> [row \in 0..(m - 1) |->
        IF i >= N /\ i < 2 * N
        THEN LET k == 1 + (i - N)
             IN  IF row = k \div n THEN unit_vector(n, k % n) ELSE ZeroVector(n)
        ELSE IF i >= 3 * N /\ i < 4 * N - 2
        THEN LET ell == N + 1 + (i - 3 * N)
             IN  IF row = ell \div n
                 THEN vectorTimesConstant(unit_vector(n, ell % n), 0 - 1)
                 ELSE ZeroVector(n)
        ELSE ZeroVector(n)]]

PreK(N) ==
    [i \in 0..(4 * N - 1) |->
        IF i < N THEN 1
        ELSE IF i >= 2 * N /\ i < 3 * N - 1 THEN Mod(0 - 1)
        ELSE IF i = 3 * N - 1 THEN h
        ELSE 0]

(***************************************************************************)
(* setConstraints(serialNumber): one grid-row vector of wC is replaced.    *)
(***************************************************************************)
setConstraints(w, S, N, n) ==
    LET U == unit_vector(n, (2 * N - 3) % n)
        x == mul_mod(0 - 1, pow_mod(g, S))
    IN  [w EXCEPT ![4 * N - 3][(2 * N - 3) \div n] = vectorTimesConstant(U, x)]

(***************************************************************************)
(* setYPoly(y) and its helpers.                                            *)
(***************************************************************************)
\* set_YPowers2, first loop: 1, y, y^2, ... (8L + M + 2 entries)
set_YPowers2(yy, N, m) == [i \in 0..(8 * N + m + 1) |-> PowNat(yy, i)]

\* set_YPowers2, second loop
set_y_vec_neg(yy, m, n) ==
    LET ym == pow_mod(yy, 0 - m)
    IN  [i \in 0..(n + ZKP_PADS - 1) |-> mul_mod(PowNat(ym, i + 1), 2)]

\* variant of set_YDash: column i takes the power M*i
set_YDash_FromZero(YP, m, n) == [i \in 0..(n - 1) |-> YP[m * i]]

set_YDash(YP, m, n) == [i \in 0..(n - 1) |-> YP[m * (i + 1)]]

RECURSIVE KconstUpTo(_, _, _, _, _)
KconstUpTo(KK, YP, N, m, cnt) ==
    IF cnt = 0 THEN 0
    ELSE (KconstUpTo(KK, YP, N, m, cnt - 1)
          + mul_mod(KK[cnt - 1], YP[4 * N + m + 1 + (cnt - 1)])) % q

\* set_Kconst: K after the push_back, and the folded constant
set_Kconst_K(KK, serial) == push_back(KK, pow_mod(g, serial))

\* variant of set_Kconst: the public value g^S is not appended before the fold
set_Kconst_NoAppend(KK, YP, serial, N, m) == KconstUpTo(KK, YP, N, m, Size(KK))

set_Kconst(KK, YP, serial, N, m) ==
    LET K2 == set_Kconst_K(KK, serial)
    IN  KconstUpTo(K2, YP, N, m, Size(K2))

(***************************************************************************)
(* The sums read by check().                                               *)
(***************************************************************************)
RECURSIVE SumWsUpTo(_, _)
SumWsUpTo(i, rows) ==
    IF rows = 0 THEN 0
    ELSE LET j == rows - 1
             s0 == SumWsUpTo(i, j)
             s1 == (s0 + dotProduct(A[j], wA[i][j])) % q
             s2 == (s1 + dotProduct(B[j], wB[i][j])) % q
         IN  (s2 + dotProduct(C[j], wC[i][j])) % q

sumWiresDotWs(i) == SumWsUpTo(i, ZKP_M)

RECURSIVE AiDotBiUpTo(_, _)
AiDotBiUpTo(i, cols) ==
    IF cols = 0 THEN 0
    ELSE (AiDotBiUpTo(i, cols - 1)
          + A[i][cols - 1] * B[i][cols - 1] * YDash[cols - 1]) % q

AiDotBiYDash(i) == AiDotBiUpTo(i, ZKP_N)

RECURSIVE PolyFirstLoop(_)
PolyFirstLoop(rows) ==
    IF rows = 0 THEN 0
    ELSE (PolyFirstLoop(rows - 1)
          + mul_mod(AiDotBiYDash(rows - 1), pow_mod(y, rows))) % q

RECURSIVE PolySecondLoop(_, _)
PolySecondLoop(start, rows) ==
    IF rows = 0 THEN start
    ELSE LET i == rows - 1
             s0 == PolySecondLoop(start, i)
             s1 == (s0 + dotProduct(A[i], wAj[i])) % q
             s2 == (s1 + dotProduct(B[i], wBj[i])) % q
         IN  (s2 + dotProduct(C[i], wCj[i])) % q

sumWiresDotWPoly == PolySecondLoop(PolyFirstLoop(ZKP_M), ZKP_M)

(***************************************************************************)
(* check(): the four stages, and the first one that throws.                *)
(***************************************************************************)
Cells == (0..(ZKP_M - 1)) \X (0..(ZKP_N - 1))

\* variant of WireProductsHold: the loop starts at grid row 1
WireProductsHold_SkipRowZero ==
    \A c \in Cells : c[1] = 0 \/ mul_mod(A[c[1]][c[2]], B[c[1]][c[2]]) = C[c[1]][c[2]]

\* stage 1 passes: no cell with A*B mod q /= C
WireProductsHold ==
    \A c \in Cells : mul_mod(A[c[1]][c[2]], B[c[1]][c[2]]) = C[c[1]][c[2]]

logarithm == mul_mod(pow_mod(g, serialNumber), pow_mod(h, randomness))

\* stage 2 passes
CommitmentHolds == C[ZKP_M - 1][0] = logarithm

\* the template rows the loop of stage 3 visits
CheckedRows == 0..(4 * ZKP_SERIALSIZE - 3)

RowHolds(i) == K[i] = sumWiresDotWs(i)

\* stage 3 passes
ConstraintRowsHold == \A i \in CheckedRows : RowHolds(i)

\* stage 4 passes
AggregateHolds == sumWiresDotWPoly = Kconst

\* the first template row on which stage 3 fails
FirstBadRow ==
    CHOOSE i \in CheckedRows : ~RowHolds(i) /\ \A j \in 0..(i - 1) : RowHolds(j)

\* variant of CheckCode: the constraint rows are examined before the wire products
CheckCode_RowsFirst ==
    IF ~ConstraintRowsHold THEN 3
    ELSE IF ~WireProductsHold THEN 1
    ELSE IF ~CommitmentHolds THEN 2
    ELSE IF ~AggregateHolds THEN 4
    ELSE 0

\* 0 when check() returns, otherwise the code in the message it throws
CheckCode ==
    IF ~WireProductsHold THEN 1
    ELSE IF ~CommitmentHolds THEN 2
    ELSE IF ~ConstraintRowsHold THEN 3
    ELSE IF ~AggregateHolds THEN 4
    ELSE 0

\* the std::runtime_error thrown for each code
Error1 == [status |-> "thrown", what |-> "ArithmeticCircuit::check() error: code 1"]
Error2 == [status |-> "thrown", what |-> "ArithmeticCircuit::check() error: code 2"]
Error3 == [status |-> "thrown", what |-> "ArithmeticCircuit::check() error: code 3"]
Error4 == [status |-> "thrown", what |-> "ArithmeticCircuit::check() error: code 4"]
Returned == [status |-> "returned"]

\* variant of CheckOutcome: the code 3 error also carries the failing row
CheckOutcome_WithRow ==
    LET code == CheckCode
    IN  IF code = 0 THEN Returned
        ELSE IF code = 1 THEN Error1
        ELSE IF code = 2 THEN Error2
        ELSE IF code = 3
        THEN [status |-> "thrown", what |-> Error3.what, row |-> FirstBadRow]
        ELSE Error4

\* what the caller of check() observes
CheckOutcome ==
    LET code == CheckCode
    IN  IF code = 0 THEN Returned
        ELSE IF code = 1 THEN Error1
        ELSE IF code = 2 THEN Error2
        ELSE IF code = 3 THEN Error3
        ELSE Error4

(***************************************************************************)
(* A claimed witness handed to the verifier in place of the one computed   *)
(* by setWireValues: the same bit and accumulation values, stored one wire *)
(* later (bit i at wire i+1, accumulation step k at wire L+1+k) and        *)
(* without the serial factor.  A, B and C are plain members of the circuit *)
(* object, so a caller can store any such assignment.                      *)
(***************************************************************************)
ClaimedA(bits, N, w) ==
    IF w = 0 \/ w > 2 * N - 1 THEN 0
    ELSE IF w - 1 < N THEN Mod(bits[w - 1])
    ELSE ProductReg(bits, w - 1 - N)

ClaimedB(bits, N, w) ==
    IF w = 0 \/ w > 2 * N - 1 THEN 0
    ELSE IF w - 1 < N THEN Mod(bits[w - 1] - 1)
    ELSE Mod(XReg(bits, w - N))

ClaimedC(bits, N, w) == mul_mod(ClaimedA(bits, N, w), ClaimedB(bits, N, w))

ClaimedMatrix(W, m, n) ==
    [row \in 0..(m - 1) |-> [col \in 0..(n - 1) |-> W[row * n + col]]]

(***************************************************************************)
(* Initial state: parameters built (setPreConstraints) and a circuit       *)
(* constructed from them; the coin to be proven is fixed.                  *)
(***************************************************************************)
\* members of a circuit just built for coin c from the shared parameters
Constructed(c) ==
    [coin |-> c,
     A |-> ZeroMatrix(ZKP_M, ZKP_N),
     B |-> ZeroMatrix(ZKP_M, ZKP_N),
     C |-> ZeroMatrix(ZKP_M, ZKP_N),
     wA |-> ZKP_wA, wB |-> ZKP_wB, wC |-> ZKP_wC, K |-> ZKP_K,
     YPowers |-> ZeroVector(0),
     YDash |-> ZeroVector(ZKP_N),
     y_vec_neg |-> ZeroVector(0),
     wAj |-> ZeroMatrix(ZKP_M, ZKP_N),
     wBj |-> ZeroMatrix(ZKP_M, ZKP_N),
     wCj |-> ZeroMatrix(ZKP_M, ZKP_N),
     Kconst |-> 0, y |-> 0,
     serialNumber |-> 0, randomness |-> 0,
     r_bits |-> ZeroVector(ZKP_SERIALSIZE),
     wired |-> FALSE, constrained |-> FALSE, pc |-> "setup",
     overwritten |-> FALSE, corrupted |-> "none",
     result |-> [status |-> "not run"]]

InitCircuit ==
    /\ \E gr \in Grids :
          /\ ZKP_SERIALSIZE = gr[1]
          /\ ZKP_M = gr[2]
          /\ ZKP_N = gr[3]
    /\ \E S \in Serials, r \in 0..(pow(2, ZKP_SERIALSIZE) - 1) :
          coin = [serial |-> S, randomness |-> r]
    /\ A = ZeroMatrix(ZKP_M, ZKP_N)
    /\ B = ZeroMatrix(ZKP_M, ZKP_N)
    /\ C = ZeroMatrix(ZKP_M, ZKP_N)
    /\ ZKP_wA = PreWA(ZKP_SERIALSIZE, ZKP_M, ZKP_N)
    /\ ZKP_wB = PreWB(ZKP_SERIALSIZE, ZKP_M, ZKP_N)
    /\ ZKP_wC = PreWC(ZKP_SERIALSIZE, ZKP_M, ZKP_N)
    /\ ZKP_K = PreK(ZKP_SERIALSIZE)
    /\ wA = ZKP_wA
    /\ wB = ZKP_wB
    /\ wC = ZKP_wC
    /\ K = ZKP_K
    /\ YPowers = ZeroVector(0)
    /\ YDash = ZeroVector(ZKP_N)
    /\ y_vec_neg = ZeroVector(0)
    /\ wAj = ZeroMatrix(ZKP_M, ZKP_N)
    /\ wBj = ZeroMatrix(ZKP_M, ZKP_N)
    /\ wCj = ZeroMatrix(ZKP_M, ZKP_N)
    /\ Kconst = 0
    /\ y = 0
    /\ serialNumber = 0
    /\ randomness = 0
    /\ r_bits = ZeroVector(ZKP_SERIALSIZE)
    /\ wired = FALSE
    /\ constrained = FALSE
    /\ pc = "setup"
    /\ overwritten = FALSE
    /\ corrupted = "none"
    /\ result = [status |-> "not run"]
    /\ active = 1
    /\ s_a1 = ZeroVector(0) /\ s_a2 = ZeroVector(0)
    /\ s_b1 = ZeroVector(0) /\ s_b2 = ZeroVector(0)
    /\ s_c1 = ZeroVector(0) /\ s_c2 = ZeroVector(0)

\* one circuit is used; the second stays as constructed
Init ==
    /\ InitCircuit
    /\ other = Constructed([serial |-> MinSerial, randomness |-> 0])

\* two circuits for different coins are built from the same parameters
InitTwo ==
    /\ InitCircuit
    /\ \E S \in Serials, r \in 0..MaxOtherRandomness :
          /\ [serial |-> S, randomness |-> r] # coin
          /\ other = Constructed([serial |-> S, randomness |-> r])

\* what the operations of one circuit leave alone
params == <<ZKP_SERIALSIZE, ZKP_M, ZKP_N, coin, ZKP_wA, ZKP_wB, ZKP_wC, ZKP_K,
            other, active, s_a1, s_a2, s_b1, s_b2, s_c1, s_c2>>
sparse == <<s_a1, s_a2, s_b1, s_b2, s_c1, s_c2>>
witness == <<A, B, C>>
template == <<wA, wB, wC, K>>
weights == <<wA, wB, wC>>
folded == <<YPowers, YDash, y_vec_neg, Kconst, y>>
aggregated == <<wAj, wBj, wCj>>
secrets == <<serialNumber, randomness, r_bits>>

(***************************************************************************)
(* Operations.                                                             *)
(***************************************************************************)
SetWireValues ==
    /\ pc = "setup"
    /\ ~wired
    /\ LET bits == getRandomnessBits(coin.randomness, ZKP_SERIALSIZE)
           S == coin.serial
           N == ZKP_SERIALSIZE
           WA == [i \in 0..(2 * N - 2) |-> WireA(bits, S, N, i)]
           WB == [i \in 0..(2 * N - 2) |-> WireB(bits, S, N, i)]
           WC == [i \in 0..(2 * N - 2) |-> WireC(bits, S, N, i)]
       IN  /\ serialNumber' = S
           /\ randomness' = coin.randomness
           /\ r_bits' = bits
           /\ A' = AssignWires(A, WA, N, ZKP_M, ZKP_N)
           /\ B' = AssignWires(B, WB, N, ZKP_M, ZKP_N)
           /\ C' = AssignWires(C, WC, N, ZKP_M, ZKP_N)
    /\ wired' = TRUE
    /\ UNCHANGED <<params, template, folded, aggregated, constrained, pc,
                   overwritten, corrupted, result>>

SetConstraints ==
    /\ pc = "setup"
    /\ ~constrained
    /\ wC' = setConstraints(wC, coin.serial, ZKP_SERIALSIZE, ZKP_N)
    /\ constrained' = TRUE
    /\ UNCHANGED <<params, witness, wA, wB, K, folded, aggregated, secrets,
                   wired, pc, overwritten, corrupted, result>>

SetYPoly(yy) ==
    /\ pc = "setup"
    /\ wired
    /\ constrained
    /\ y' = yy
    /\ YPowers' = set_YPowers2(yy, ZKP_SERIALSIZE, ZKP_M)
    /\ y_vec_neg' = set_y_vec_neg(yy, ZKP_M, ZKP_N)
    /\ YDash' = set_YDash(YPowers', ZKP_M, ZKP_N)
    /\ K' = set_Kconst_K(K, serialNumber)
    /\ Kconst' = set_Kconst(K, YPowers', serialNumber, ZKP_SERIALSIZE, ZKP_M)
    /\ pc' = "folded"
    /\ UNCHANGED <<params, witness, weights, aggregated, secrets, wired,
                   constrained, overwritten, corrupted, result>>

\* a caller stores a whole claimed witness into A, B, C
OverwriteWires(v) ==
    /\ pc = "setup"
    /\ wired
    /\ ~overwritten
    /\ LET bits == getRandomnessBits(v, ZKP_SERIALSIZE)
           N == ZKP_SERIALSIZE
           WA == [w \in 0..(ZKP_M * ZKP_N - 1) |-> ClaimedA(bits, N, w)]
           WB == [w \in 0..(ZKP_M * ZKP_N - 1) |-> ClaimedB(bits, N, w)]
           WC == [w \in 0..(ZKP_M * ZKP_N - 1) |-> ClaimedC(bits, N, w)]
       IN  /\ A' = ClaimedMatrix(WA, ZKP_M, ZKP_N)
           /\ B' = ClaimedMatrix(WB, ZKP_M, ZKP_N)
           /\ C' = ClaimedMatrix(WC, ZKP_M, ZKP_N)
    /\ overwritten' = TRUE
    /\ UNCHANGED <<params, template, folded, aggregated, secrets, wired,
                   constrained, pc, corrupted, result>>

\* a caller overwrites one cell of A, B or C with a different value
Corrupt(mat, i, j, v) ==
    /\ pc = "folded"
    /\ corrupted = "none"
    /\ \/ /\ mat = "A" /\ v # A[i][j]
          /\ A' = [A EXCEPT ![i][j] = v]
          /\ UNCHANGED <<B, C>>
       \/ /\ mat = "B" /\ v # B[i][j]
          /\ B' = [B EXCEPT ![i][j] = v]
          /\ UNCHANGED <<A, C>>
       \/ /\ mat = "C" /\ v # C[i][j]
          /\ C' = [C EXCEPT ![i][j] = v]
          /\ UNCHANGED <<A, B>>
    /\ corrupted' = mat
    /\ UNCHANGED <<params, template, folded, aggregated, secrets, wired,
                   constrained, pc, overwritten, result>>

Check ==
    /\ pc = "folded"
    /\ result' = CheckOutcome
    /\ pc' = "checked"
    /\ UNCHANGED <<params, witness, template, folded, aggregated, secrets,
                   wired, constrained, overwritten, corrupted>>

Next ==
    \/ SetWireValues
    \/ SetConstraints
    \/ \E yy \in Challenges : SetYPoly(yy)
    \/ \E v \in 0..MaxClaimed : OverwriteWires(v)
    \/ \E mat \in {"A", "B", "C"}, i \in 0..(ZKP_M - 1), j \in 0..(ZKP_N - 1),
          v \in 0..(q - 1) : Corrupt(mat, i, j, v)
    \/ Check

Spec == Init /\ [][Next]_vars

(***************************************************************************)
(* Two circuits built from the same ZerocoinParams, their steps            *)
(* interleaved in any order.                                               *)
(***************************************************************************)
\* the members of the circuit the variables describe, as one record
Circuit ==
    [coin |-> coin, A |-> A, B |-> B, C |-> C,
     wA |-> wA, wB |-> wB, wC |-> wC, K |-> K,
     YPowers |-> YPowers, YDash |-> YDash, y_vec_neg |-> y_vec_neg,
     wAj |-> wAj, wBj |-> wBj, wCj |-> wCj,
     Kconst |-> Kconst, y |-> y,
     serialNumber |-> serialNumber, randomness |-> randomness,
     r_bits |-> r_bits,
     wired |-> wired, constrained |-> constrained, pc |-> pc,
     overwritten |-> overwritten, corrupted |-> corrupted,
     result |-> result]

\* variant of CopiedMember: the member designates the parameters' object
CopiedMember_ByReference(shared, own) == shared

\* wA(p->ZKP_wA), wB(p->ZKP_wB), wC(p->ZKP_wC), K(p->ZKP_K) copy-construct
\* the members: what a circuit reads is its own copy
CopiedMember(shared, own) == own

\* the next step is taken by the other circuit
Switch ==
    /\ other' = Circuit
    /\ active' = 3 - active
    /\ coin' = other.coin
    /\ A' = other.A /\ B' = other.B /\ C' = other.C
    /\ wA' = CopiedMember(ZKP_wA, other.wA)
    /\ wB' = CopiedMember(ZKP_wB, other.wB)
    /\ wC' = CopiedMember(ZKP_wC, other.wC)
    /\ K' = CopiedMember(ZKP_K, other.K)
    /\ YPowers' = other.YPowers /\ YDash' = other.YDash
    /\ y_vec_neg' = other.y_vec_neg
    /\ wAj' = other.wAj /\ wBj' = other.wBj /\ wCj' = other.wCj
    /\ Kconst' = other.Kconst /\ y' = other.y
    /\ serialNumber' = other.serialNumber /\ randomness' = other.randomness
    /\ r_bits' = other.r_bits
    /\ wired' = other.wired /\ constrained' = other.constrained
    /\ pc' = other.pc
    /\ overwritten' = other.overwritten /\ corrupted' = other.corrupted
    /\ result' = other.result
    /\ UNCHANGED <<ZKP_SERIALSIZE, ZKP_M, ZKP_N, ZKP_wA, ZKP_wB, ZKP_wC, ZKP_K,
                   sparse>>

NextTwo ==
    \/ SetWireValues
    \/ SetConstraints
    \/ \E yy \in Challenges : SetYPoly(yy)
    \/ Check
    \/ Switch

SpecTwo == InitTwo /\ [][NextTwo]_vars

(***************************************************************************)
(* Building the template on an arbitrary grid.                             *)
(***************************************************************************)
\* the cells setPreConstraints writes a weight to, as
\* <<matrix, template row, grid row, column>>, with the code's N = L, n = ZKP_N
PreWrites(N, n) ==
    {<<"wA", i, i \div n, (i + 1) % n>> : i \in 0..(N - 1)}
    \cup {<<"wB", i, i \div n, (i + 1) % n>> : i \in 0..(N - 1)}
    \cup {<<"wC", i, (i - N + 1) \div n, (i - N + 1) % n>> : i \in N..(2 * N - 1)}
    \cup {<<"wA", i, (i - 2 * N + 2) \div n, (i - 2 * N + 2) % n>> :
              i \in (2 * N)..(3 * N - 2)}
    \cup {<<"wB", i, (i - N + 1) \div n, (i - N + 1) % n>> :
              i \in (2 * N)..(3 * N - 2)}
    \cup {<<"wA", 3 * N - 1, (N + 1) \div n, (N + 1) % n>>,
          <<"wB", 3 * N - 1, 0, 1>>}
    \cup {<<"wA", i, (i - 2 * N + 2) \div n, (i - 2 * N + 2) % n>> :
              i \in (3 * N)..(4 * N - 3)}
    \cup {<<"wC", i, (i - 2 * N + 1) \div n, (i - 2 * N + 1) % n>> :
              i \in (3 * N)..(4 * N - 3)}
    \cup {<<"wB", 4 * N - 2, (2 * N) \div n, (2 * N) % n>>}

\* the cell setConstraints writes -g^S to
ConstraintWrite(N, n) ==
    <<"wC", 4 * N - 3, (2 * N - 3) \div n, (2 * N - 3) % n>>

\* the address lies inside the 4L matrices of m x n cells
InsideTemplate(w, N, m, n) ==
    /\ w[2] \in 0..(4 * N - 1)
    /\ w[3] \in 0..(m - 1)
    /\ w[4] \in 0..(n - 1)

\* wA.resize(4*N, ...), wB.resize, wC.resize, K.resize: all zero
ResizedWeights(N, m, n) == [i \in 0..(4 * N - 1) |-> ZeroMatrix(m, n)]

InitGrid ==
    /\ \E gr \in TemplateGrids :
          /\ ZKP_SERIALSIZE = gr[1]
          /\ ZKP_M = gr[2]
          /\ ZKP_N = gr[3]
    /\ \E S \in Serials : coin = [serial |-> S, randomness |-> 0]
    /\ A = ZeroMatrix(ZKP_M, ZKP_N)
    /\ B = ZeroMatrix(ZKP_M, ZKP_N)
    /\ C = ZeroMatrix(ZKP_M, ZKP_N)
    /\ ZKP_wA = ResizedWeights(ZKP_SERIALSIZE, ZKP_M, ZKP_N)
    /\ ZKP_wB = ResizedWeights(ZKP_SERIALSIZE, ZKP_M, ZKP_N)
    /\ ZKP_wC = ResizedWeights(ZKP_SERIALSIZE, ZKP_M, ZKP_N)
    /\ ZKP_K = ZeroVector(4 * ZKP_SERIALSIZE)
    /\ wA = ZKP_wA
    /\ wB = ZKP_wB
    /\ wC = ZKP_wC
    /\ K = ZKP_K
    /\ YPowers = ZeroVector(0)
    /\ YDash = ZeroVector(ZKP_N)
    /\ y_vec_neg = ZeroVector(0)
    /\ wAj = ZeroMatrix(ZKP_M, ZKP_N)
    /\ wBj = ZeroMatrix(ZKP_M, ZKP_N)
    /\ wCj = ZeroMatrix(ZKP_M, ZKP_N)
    /\ Kconst = 0
    /\ y = 0
    /\ serialNumber = 0
    /\ randomness = 0
    /\ r_bits = ZeroVector(ZKP_SERIALSIZE)
    /\ wired = FALSE
    /\ constrained = FALSE
    /\ pc = "resized"
    /\ overwritten = FALSE
    /\ corrupted = "none"
    /\ result = [status |-> "not run"]
    /\ active = 1
    /\ s_a1 = ZeroVector(0) /\ s_a2 = ZeroVector(0)
    /\ s_b1 = ZeroVector(0) /\ s_b2 = ZeroVector(0)
    /\ s_c1 = ZeroVector(0) /\ s_c2 = ZeroVector(0)
    /\ other = Constructed(coin)

\* setPreConstraints after its four resize calls, and the construction of
\* the circuit from the finished template.  A write outside the vectors is
\* undefined: the build may stop there or run on.
SetPreConstraints(outcome) ==
    /\ pc = "resized"
    /\ \/ outcome = "completed"
       \/ \E w \in PreWrites(ZKP_SERIALSIZE, ZKP_N) :
             ~InsideTemplate(w, ZKP_SERIALSIZE, ZKP_M, ZKP_N)
    /\ IF outcome = "completed"
       THEN /\ ZKP_wA' = PreWA(ZKP_SERIALSIZE, ZKP_M, ZKP_N)
            /\ ZKP_wB' = PreWB(ZKP_SERIALSIZE, ZKP_M, ZKP_N)
            /\ ZKP_wC' = PreWC(ZKP_SERIALSIZE, ZKP_M, ZKP_N)
            /\ ZKP_K' = PreK(ZKP_SERIALSIZE)
            /\ wA' = ZKP_wA'
            /\ wB' = ZKP_wB'
            /\ wC' = ZKP_wC'
            /\ K' = ZKP_K'
            /\ pc' = "setup"
       ELSE /\ pc' = "crashed"
            /\ UNCHANGED <<ZKP_wA, ZKP_wB, ZKP_wC, ZKP_K, template>>
    /\ UNCHANGED <<ZKP_SERIALSIZE, ZKP_M, ZKP_N, coin, other, active, witness,
                   folded, aggregated, secrets, wired, constrained,
                   overwritten, corrupted, result, sparse>>

NextGrid ==
    \/ \E outcome \in {"completed", "crashed"} : SetPreConstraints(outcome)
    \/ SetWireValues
    \/ SetConstraints

SpecGrid == InitGrid /\ [][NextGrid]_vars

(***************************************************************************)
(* setYPoly called again on a circuit that is already folded.              *)
(***************************************************************************)
\* every YPowers index the loop of set_Kconst reads exists
KconstReadsInside(KK, YP, N, m) ==
    \A i \in DOMAIN KK : (4 * N + m + 1 + i) \in DOMAIN YP

\* setYPoly(yy) on a folded circuit.  set_Kconst pushes onto the K the
\* earlier call left; a read past the end of YPowers is undefined: the call
\* may stop there, or go on with whatever value the read produced.
SetYPolyAgain(yy, outcome, junk) ==
    /\ pc = "folded"
    /\ Size(K) < 4 * ZKP_SERIALSIZE + MaxFolds
    /\ LET YP == set_YPowers2(yy, ZKP_SERIALSIZE, ZKP_M)
           K2 == set_Kconst_K(K, serialNumber)
           inside == KconstReadsInside(K2, YP, ZKP_SERIALSIZE, ZKP_M)
       IN  /\ inside => (outcome = "completed" /\ junk = 0)
           /\ outcome = "crashed" => junk = 0
           /\ y' = yy
           /\ YPowers' = YP
           /\ y_vec_neg' = set_y_vec_neg(yy, ZKP_M, ZKP_N)
           /\ YDash' = set_YDash(YP, ZKP_M, ZKP_N)
           /\ K' = K2
           /\ Kconst' = IF inside
                        THEN set_Kconst(K, YP, serialNumber, ZKP_SERIALSIZE, ZKP_M)
                        ELSE junk
           /\ pc' = IF outcome = "completed" THEN "folded" ELSE "crashed"
    /\ UNCHANGED <<params, witness, weights, aggregated, secrets, wired,
                   constrained, overwritten, corrupted, result>>

NextRepeat ==
    \/ SetWireValues
    \/ SetConstraints
    \/ \E yy \in Challenges : SetYPoly(yy)
    \/ \E yy \in Challenges, outcome \in {"completed", "crashed"},
          junk \in 0..(q - 1) : SetYPolyAgain(yy, outcome, junk)
    \/ Check

SpecRepeat == Init /\ [][NextRepeat]_vars

(***************************************************************************)
(* set_s_poly: the sparse form of the shared template.                     *)
(***************************************************************************)
\* temp1 after the inner loop has visited the first cnt template rows: the
\* pairs (i, w[i][0][k]) with a non-zero weight
RECURSIVE temp1(_, _, _)
temp1(w, k, cnt) ==
    IF cnt = 0 THEN ZeroVector(0)
    ELSE IF w[cnt - 1][0][k] # 0
         THEN push_back(temp1(w, k, cnt - 1), <<cnt - 1, w[cnt - 1][0][k]>>)
         ELSE temp1(w, k, cnt - 1)

\* temp2 likewise, for grid row 1
RECURSIVE temp2(_, _, _)
temp2(w, k, cnt) ==
    IF cnt = 0 THEN ZeroVector(0)
    ELSE IF w[cnt - 1][1][k] # 0
         THEN push_back(temp2(w, k, cnt - 1), <<cnt - 1, w[cnt - 1][1][k]>>)
         ELSE temp2(w, k, cnt - 1)

\* s_a1.push_back(temp1) for each column k (and s_b1, s_c1)
set_s_poly_1(w, n) == [k \in 0..(n - 1) |-> temp1(w, k, Size(w))]

\* s_a2.push_back(temp1) for each column k (and s_b2, s_c2)
set_s_poly_2(w, n) == [k \in 0..(n - 1) |-> temp1(w, k, Size(w))]

Set_s_poly ==
    /\ pc # "resized"
    /\ s_a1' = set_s_poly_1(ZKP_wA, ZKP_N)
    /\ s_a2' = set_s_poly_2(ZKP_wA, ZKP_N)
    /\ s_b1' = set_s_poly_1(ZKP_wB, ZKP_N)
    /\ s_b2' = set_s_poly_2(ZKP_wB, ZKP_N)
    /\ s_c1' = set_s_poly_1(ZKP_wC, ZKP_N)
    /\ s_c2' = set_s_poly_2(ZKP_wC, ZKP_N)
    /\ UNCHANGED <<ZKP_SERIALSIZE, ZKP_M, ZKP_N, coin, ZKP_wA, ZKP_wB, ZKP_wC,
                   ZKP_K, other, active, witness, template, folded,
                   aggregated, secrets, wired, constrained, pc, overwritten,
                   corrupted, result>>

NextSparse ==
    \/ Set_s_poly
    \/ SetWireValues
    \/ SetConstraints
    \/ \E yy \in Challenges : SetYPoly(yy)
    \/ Check

SpecSparse == Init /\ [][NextSparse]_vars

(***************************************************************************)
(* Properties.                                                             *)
(***************************************************************************)
\* the witness is the one setWireValues computed from the coin
Honest == wired /\ ~overwritten /\ corrupted = "none"

RECURSIVE BitsValue(_, _)
BitsValue(bits, len) ==
    IF len = 0 THEN 0 ELSE BitsValue(bits, len - 1) + bits[len - 1] * pow(2, len - 1)

ToyInstance ==
    /\ ZKP_SERIALSIZE = 4 /\ ZKP_M = 2 /\ ZKP_N = 6
    /\ coin = [serial |-> 5, randomness |-> 9]

\* C1 (completeness): for every coin (S, r) and challenge y, the sequence
\* template, setWireValues, setYPoly, check ends with check() returning
\* without any of its four errors.
C1_Completeness == (pc = "checked" /\ Honest) => result = Returned

\* C2 (rank-1 invariant): after setWireValues every cell of the M x N grid
\* satisfies A*B mod q = C, so check() does not throw code 1 on an
\* unmodified witness.
C2_Rank1AfterAssignment == Honest => (WireProductsHold /\ result # Error1)

C2_Witness ==
    /\ Honest /\ pc = "checked" /\ ToyInstance
    /\ A[1][0] # 0 /\ B[1][0] # 0
    /\ result # Error1

\* C3 (commitment value of the final wire): after setWireValues the C value
\* of wire 2L-2, at cell ((2L-2) div N, (2L-2) mod N), is g^S * h^r mod q
\* with r the value of r_bits.
C3_FinalWireIsCommitment ==
    Honest =>
        C[(2 * ZKP_SERIALSIZE - 2) \div ZKP_N][(2 * ZKP_SERIALSIZE - 2) % ZKP_N]
            = (pow_mod(g, coin.serial)
               * pow_mod(h, BitsValue(r_bits, ZKP_SERIALSIZE))) % q

C3_Witness ==
    /\ Honest /\ ToyInstance
    /\ BitsValue(r_bits, ZKP_SERIALSIZE) = 9
    /\ C[1][0] = 1

\* C4 (soundness sensitivity): after overwriting any single cell of A, B or
\* C of a witness produced by setWireValues, check() throws code 1 or code 3;
\* it never returns and never throws only code 2 or code 4.
C4_SingleCellRejected ==
    (pc = "checked" /\ wired /\ ~overwritten /\ corrupted # "none")
        => result \in {Error1, Error3}

\* C5 (first-failure ordering): check() reports exactly the lowest-numbered
\* violated category among wire products (1), commitment (2), constraint
\* rows (3), aggregate identity (4), and returns only when all four hold.
C5_FirstFailureReported ==
    pc = "checked" =>
        /\ (result = Error1) <=> ~WireProductsHold
        /\ (result = Error2) <=> (WireProductsHold /\ ~CommitmentHolds)
        /\ (result = Error3) <=>
              (WireProductsHold /\ CommitmentHolds /\ ~ConstraintRowsHold)
        /\ (result = Error4) <=>
              (WireProductsHold /\ CommitmentHolds /\ ConstraintRowsHold
               /\ ~AggregateHolds)
        /\ (result = Returned) <=>
              (WireProductsHold /\ CommitmentHolds /\ ConstraintRowsHold
               /\ AggregateHolds)

C5_Witness ==
    /\ pc = "checked"
    /\ ~WireProductsHold /\ ~ConstraintRowsHold /\ ~AggregateHolds
    /\ result = Error1

\* C6 (corrupted product wire): after correct assignment and folding,
\* overwriting any single C cell with a different value makes check() throw
\* code 1.
C6_CorruptedProductWire ==
    (pc = "checked" /\ wired /\ ~overwritten /\ corrupted = "C") => result = Error1

C6_Witness ==
    /\ pc = "checked" /\ wired /\ ~overwritten /\ corrupted = "C"
    /\ ToyInstance /\ y = 7
    /\ C[0][0] = 1
    /\ result = Error1

\* C7 (every template row is verified): check() gets past its constraint-row
\* stage only if every row of the template, the final-value row 4L-2
\* included, has its weighted sum equal to K[i].
C7_EveryRowVerified ==
    (pc = "checked" /\ result \in {Error4, Returned})
        => \A i \in DOMAIN wA : RowHolds(i)

\* C8 (challenge-independence of the aggregate check): after setYPoly, in
\* every state where the wire products, the commitment and the constraint
\* rows hold, sumWiresDotWPoly() = Kconst holds too; check() never throws
\* code 4.
C8_AggregateFollows ==
    (pc \in {"folded", "checked"}
     /\ WireProductsHold /\ CommitmentHolds /\ ConstraintRowsHold)
        => (AggregateHolds /\ result # Error4)

\* C9 (failure report carries the row), as claimed: a failure of the
\* constraint-row stage identifies the smallest failing row index.
C9_RowReported ==
    (pc = "checked" /\ result.status = "thrown" /\ result.what = Error3.what)
        => ("row" \in DOMAIN result /\ result.row = FirstBadRow)

\* C9, amended: every failure of check() carries its category only; a
\* code 3 failure means that stages 1 and 2 passed and some row i < 4L-2 has
\* K[i] /= sumWiresDotWs(i), but that row is not part of the report.
C9_CategoryOnly ==
    (pc = "checked" /\ result.status = "thrown")
        => /\ DOMAIN result = {"status", "what"}
           /\ result \in {Error1, Error2, Error3, Error4}
           /\ result = Error3 =>
                 /\ WireProductsHold /\ CommitmentHolds
                 /\ \E i \in CheckedRows : ~RowHolds(i)

C9_Witness ==
    /\ pc = "checked" /\ Honest /\ ToyInstance /\ y = 7
    /\ result = Error3
    /\ FirstBadRow = 3

\* C10 (template immutability): no step after construction changes any
\* entry of wA, wB, wC or K, nor the length of K.
C10_TemplateImmutable == [][template' = template]_vars

(***************************************************************************)
(* Properties of the folded state.                                         *)
(***************************************************************************)
Folded == pc \in {"folded", "checked"}

\* sum over the first cnt template rows of w[i][row][col] * YPowers[i] mod q
RECURSIVE FoldWeightUpTo(_, _, _, _)
FoldWeightUpTo(w, row, col, cnt) ==
    IF cnt = 0 THEN 0
    ELSE (FoldWeightUpTo(w, row, col, cnt - 1)
          + w[cnt - 1][row][col] * YPowers[cnt - 1]) % q

FoldedWeights(w) ==
    [row \in 0..(ZKP_M - 1) |-> [col \in 0..(ZKP_N - 1) |->
        FoldWeightUpTo(w, row, col, Size(w))]]

\* C12 (aggregated weights are populated by folding): after setYPoly(y),
\* wAj[r][c] is the sum over every template row i of wA[i][r][c] * YPowers[i]
\* mod q, and likewise wBj from wB and wCj from wC.
C12_AggregatedWeightsFolded ==
    Folded => /\ wAj = FoldedWeights(wA)
              /\ wBj = FoldedWeights(wB)
              /\ wCj = FoldedWeights(wC)

\* sum of KK[i] * y^(4L + M + 1 + i) mod q over i < cnt
RECURSIVE PowerFold(_, _)
PowerFold(KK, cnt) ==
    IF cnt = 0 THEN 0
    ELSE (PowerFold(KK, cnt - 1)
          + KK[cnt - 1] * PowNat(y, 4 * ZKP_SERIALSIZE + ZKP_M + 1 + (cnt - 1))) % q

\* C13 (Kconst fold): after the first setYPoly(y), K is the 4L template
\* constants followed by g^S mod q exactly once, and Kconst is the sum over
\* i in [0, 4L] of K[i] * y^(4L + M + 1 + i) mod q.
C13_KconstFold ==
    Folded =>
        /\ Size(K) = 4 * ZKP_SERIALSIZE + 1
        /\ \A i \in 0..(4 * ZKP_SERIALSIZE - 1) : K[i] = PreK(ZKP_SERIALSIZE)[i]
        /\ K[4 * ZKP_SERIALSIZE] = PowNat(g, coin.serial)
        /\ Kconst = PowerFold(K, 4 * ZKP_SERIALSIZE + 1)

C13_Witness ==
    /\ pc = "folded" /\ ToyInstance /\ y = 7
    /\ Size(K) = 17 /\ K[16] = 9
    /\ Kconst = PowerFold(K, 17)
    /\ Kconst # PowerFold(K, 16)

\* C14 (challenge powers): after setYPoly(y), YPowers has 8L + M + 2 entries
\* with YPowers[i] = y^i mod q, and YDash[j] = YPowers[M*(j+1)]
\* = y^(M*(j+1)) mod q for every column j.
C14_ChallengePowers ==
    Folded =>
        /\ DOMAIN YPowers = 0..(8 * ZKP_SERIALSIZE + ZKP_M + 1)
        /\ YPowers[0] = 1
        /\ \A i \in 1..(8 * ZKP_SERIALSIZE + ZKP_M + 1) :
              YPowers[i] = (YPowers[i - 1] * y) % q
        /\ DOMAIN YDash = 0..(ZKP_N - 1)
        /\ \A j \in 0..(ZKP_N - 1) :
              /\ YDash[j] = YPowers[ZKP_M * (j + 1)]
              /\ YDash[j] = PowNat(y, ZKP_M * (j + 1))

C14_Witness ==
    /\ pc = "folded" /\ ToyInstance /\ y = 7
    /\ Size(YPowers) = 36
    /\ YPowers[1] = 7 /\ YPowers[2] = 3
    /\ YDash[0] = 3 /\ YDash[1] = 9

\* C15 (negative-power vector): after setYPoly(y), entry i of y_vec_neg is
\* (y^(-M))^(i+1) mod q, y^(-M) being the inverse of y^M mod q, with no
\* other factor.
C15_NegativePowers ==
    Folded =>
        \A i \in DOMAIN y_vec_neg :
            y_vec_neg[i] = PowNat(inverse(PowNat(y, ZKP_M)), i + 1)

(***************************************************************************)
(* Properties of the constraint template.                                  *)
(***************************************************************************)
\* the grid cells on which a weight matrix is non-zero
NonZeroCells(mat) == {c \in Cells : mat[c[1]][c[2]] # 0}

\* the grid cell of flattened wire index w
CellOf(w) == <<w \div ZKP_N, w % ZKP_N>>

\* the matrix whose only non-zero entry is v, on the cell of wire w
OnWire(mat, w, v) ==
    /\ NonZeroCells(mat) = {CellOf(w)}
    /\ mat[CellOf(w)[1]][CellOf(w)[2]] = v

\* C16 (boolean-difference rows cover the bit wires): for each i < L,
\* template row i has wA = 1 and wB = q-1 on the cell (i div N, i mod N) of
\* bit wire i and nothing else, K[i] = 1, and every witness from
\* setWireValues satisfies the row.
C16_BooleanRowsOnBitWires ==
    \A i \in 0..(ZKP_SERIALSIZE - 1) :
        /\ OnWire(wA[i], i, 1)
        /\ OnWire(wB[i], i, q - 1)
        /\ NonZeroCells(wC[i]) = {}
        /\ K[i] = 1
        /\ Honest => RowHolds(i)

\* C17 (zero-product rows use the same positions): for each j < L, row L+j
\* has the single weight wC = 1 and K = 0, on the grid cell on which
\* boolean-difference row j has its wA and wB weights.
C17_ZeroRowsSamePositions ==
    \A j \in 0..(ZKP_SERIALSIZE - 1) :
        /\ K[ZKP_SERIALSIZE + j] = 0
        /\ NonZeroCells(wA[ZKP_SERIALSIZE + j]) = {}
        /\ NonZeroCells(wB[ZKP_SERIALSIZE + j]) = {}
        /\ \E c \in Cells :
              /\ NonZeroCells(wC[ZKP_SERIALSIZE + j]) = {c}
              /\ wC[ZKP_SERIALSIZE + j][c[1]][c[2]] = 1
              /\ NonZeroCells(wA[j]) = {c}
              /\ NonZeroCells(wB[j]) = {c}

\* C18 (doubling-recurrence rows hold on honest witnesses): rows 2L..3L-2
\* have one weight on an A cell, the weight q-1 on one B cell and K = q-1,
\* and every witness produced by setWireValues satisfies each of them.
C18_DoublingRowsHold ==
    \A i \in (2 * ZKP_SERIALSIZE)..(3 * ZKP_SERIALSIZE - 2) :
        /\ K[i] = q - 1
        /\ Cardinality(NonZeroCells(wB[i])) = 1
        /\ \A c \in NonZeroCells(wB[i]) : wB[i][c[1]][c[2]] = q - 1
        /\ Honest => RowHolds(i)

\* row i asserts A[later] - C[earlier] = 0
IsChainingRow(i, earlier, later) ==
    /\ OnWire(wA[i], later, 1)
    /\ NonZeroCells(wB[i]) = {}
    /\ OnWire(wC[i], earlier, q - 1)
    /\ K[i] = 0

\* C19 (chaining rows): the template read by check() has, for every pair of
\* consecutive accumulation wires L+j, L+j+1 with j in [0, L-2], a row with
\* weight 1 on A of the later wire, q-1 on C of the earlier wire and K = 0.
C19_ChainingRows ==
    pc = "checked" =>
        \A j \in 0..(ZKP_SERIALSIZE - 2) :
            \E i \in DOMAIN wA :
                IsChainingRow(i, ZKP_SERIALSIZE + j, ZKP_SERIALSIZE + j + 1)

\* C20 (final-value row): row 4L-2 of the template read by check() has its
\* only non-zero weight on the B cell of the terminal accumulation wire
\* 2L-2 and its constant K[4L-2] is g^S mod q.
C20_FinalValueRow ==
    pc = "checked" =>
        /\ NonZeroCells(wA[4 * ZKP_SERIALSIZE - 2]) = {}
        /\ NonZeroCells(wC[4 * ZKP_SERIALSIZE - 2]) = {}
        /\ NonZeroCells(wB[4 * ZKP_SERIALSIZE - 2]) = {CellOf(2 * ZKP_SERIALSIZE - 2)}
        /\ K[4 * ZKP_SERIALSIZE - 2] = PowNat(g, coin.serial)

(***************************************************************************)
(* Independence of two circuits built from the same parameters.            *)
(***************************************************************************)
\* the witness setWireValues stores for coin c in a fresh circuit
AloneA(c) ==
    LET bits == getRandomnessBits(c.randomness, ZKP_SERIALSIZE)
    IN  AssignWires(ZeroMatrix(ZKP_M, ZKP_N),
                    [i \in 0..(2 * ZKP_SERIALSIZE - 2) |->
                        WireA(bits, c.serial, ZKP_SERIALSIZE, i)],
                    ZKP_SERIALSIZE, ZKP_M, ZKP_N)

AloneB(c) ==
    LET bits == getRandomnessBits(c.randomness, ZKP_SERIALSIZE)
    IN  AssignWires(ZeroMatrix(ZKP_M, ZKP_N),
                    [i \in 0..(2 * ZKP_SERIALSIZE - 2) |->
                        WireB(bits, c.serial, ZKP_SERIALSIZE, i)],
                    ZKP_SERIALSIZE, ZKP_M, ZKP_N)

AloneC(c) ==
    LET bits == getRandomnessBits(c.randomness, ZKP_SERIALSIZE)
    IN  AssignWires(ZeroMatrix(ZKP_M, ZKP_N),
                    [i \in 0..(2 * ZKP_SERIALSIZE - 2) |->
                        WireC(bits, c.serial, ZKP_SERIALSIZE, i)],
                    ZKP_SERIALSIZE, ZKP_M, ZKP_N)

\* the shared parameters still hold the template setPreConstraints built
SharedTemplateIntact ==
    /\ ZKP_wA = PreWA(ZKP_SERIALSIZE, ZKP_M, ZKP_N)
    /\ ZKP_wB = PreWB(ZKP_SERIALSIZE, ZKP_M, ZKP_N)
    /\ ZKP_wC = PreWC(ZKP_SERIALSIZE, ZKP_M, ZKP_N)
    /\ ZKP_K = PreK(ZKP_SERIALSIZE)

\* circuit i holds what the steps it has taken produce from its own coin and
\* challenge in a circuit that runs alone
RunsAsAlone(i) ==
    LET fresh == Constructed(i.coin)
        YP == set_YPowers2(i.y, ZKP_SERIALSIZE, ZKP_M)
    IN  /\ i.A = IF i.wired THEN AloneA(i.coin) ELSE fresh.A
        /\ i.B = IF i.wired THEN AloneB(i.coin) ELSE fresh.B
        /\ i.C = IF i.wired THEN AloneC(i.coin) ELSE fresh.C
        /\ i.wA = PreWA(ZKP_SERIALSIZE, ZKP_M, ZKP_N)
        /\ i.wB = PreWB(ZKP_SERIALSIZE, ZKP_M, ZKP_N)
        /\ i.wC = IF i.constrained
                  THEN setConstraints(PreWC(ZKP_SERIALSIZE, ZKP_M, ZKP_N),
                                      i.coin.serial, ZKP_SERIALSIZE, ZKP_N)
                  ELSE PreWC(ZKP_SERIALSIZE, ZKP_M, ZKP_N)
        /\ i.wAj = fresh.wAj /\ i.wBj = fresh.wBj /\ i.wCj = fresh.wCj
        /\ i.pc = "setup" =>
              /\ i.K = PreK(ZKP_SERIALSIZE)
              /\ i.YPowers = fresh.YPowers /\ i.YDash = fresh.YDash
              /\ i.y_vec_neg = fresh.y_vec_neg /\ i.Kconst = fresh.Kconst
        /\ i.pc # "setup" =>
              /\ i.y \in Challenges
              /\ i.K = set_Kconst_K(PreK(ZKP_SERIALSIZE), i.coin.serial)
              /\ i.YPowers = YP
              /\ i.YDash = set_YDash(YP, ZKP_M, ZKP_N)
              /\ i.y_vec_neg = set_y_vec_neg(i.y, ZKP_M, ZKP_N)
              /\ i.Kconst = set_Kconst(PreK(ZKP_SERIALSIZE), YP, i.coin.serial,
                                       ZKP_SERIALSIZE, ZKP_M)
        /\ (i.pc = "checked") = (i.result # fresh.result)

\* C11 (cross-instance independence): for two circuits built from the same
\* parameters with different coins and challenges, every interleaving of
\* their steps leaves each circuit with the witness, folded state and
\* check() verdict it has when it runs alone, and the shared template
\* ZKP_wA, ZKP_wB, ZKP_wC, ZKP_K is never changed.
C11_CrossInstanceIndependence ==
    /\ SharedTemplateIntact
    /\ RunsAsAlone(Circuit)
    /\ RunsAsAlone(other)
    /\ pc = "checked" => result = CheckOutcome

C11_Witness ==
    /\ pc = "checked" /\ other.pc = "checked"
    /\ other.coin.serial # coin.serial
    /\ other.y # y
    /\ other.wC # wC /\ other.K # K /\ other.A # A
    /\ SharedTemplateIntact

(***************************************************************************)
(* The cell of the coin commitment.                                        *)
(***************************************************************************)
\* the cell check() compares with g^S * h^r: C[ZKP_M-1][0]
CommitmentCell == <<ZKP_M - 1, 0>>

\* the cell of the last wire the second loop of setWireValues writes
LastWireCell ==
    <<(2 * ZKP_SERIALSIZE - 2) \div ZKP_N, (2 * ZKP_SERIALSIZE - 2) % ZKP_N>>

\* C21 (designated final cell is the last assigned wire): on every grid with
\* M*N >= 2L-1 the cell check() compares with g^S * h^r mod q, C[M-1][0], is
\* the cell of wire 2L-2, the last one setWireValues writes:
\* (2L-2) div N = M-1 and (2L-2) mod N = 0.
C21_FinalCellIsLastWire ==
    ZKP_M * ZKP_N >= 2 * ZKP_SERIALSIZE - 1 =>
        /\ CommitmentCell = LastWireCell
        /\ (wired /\ ~overwritten /\ corrupted = "none") =>
              C[CommitmentCell[1]][CommitmentCell[2]]
                  = WireC(r_bits, serialNumber, ZKP_SERIALSIZE,
                          2 * ZKP_SERIALSIZE - 2)

(***************************************************************************)
(* Addresses written while the template is built.                          *)
(***************************************************************************)
\* C23 (template cell addresses stay inside the grid): for every L, M, N
\* with N >= 2 and M*N >= 2L-1, every cell written by setPreConstraints and
\* setConstraints has grid row < M, column < N and template row < 4L,
\* including wire 2L of the final-value row and the wires up to 2L-1 of the
\* doubling and chaining rows.
C23_TemplateAddressesInGrid ==
    (ZKP_N >= 2 /\ ZKP_M * ZKP_N >= 2 * ZKP_SERIALSIZE - 1) =>
        /\ pc # "resized" =>
              \A w \in PreWrites(ZKP_SERIALSIZE, ZKP_N) :
                  InsideTemplate(w, ZKP_SERIALSIZE, ZKP_M, ZKP_N)
        /\ constrained =>
              InsideTemplate(ConstraintWrite(ZKP_SERIALSIZE, ZKP_N),
                             ZKP_SERIALSIZE, ZKP_M, ZKP_N)

(***************************************************************************)
(* Folding twice.                                                          *)
(***************************************************************************)
\* C22 (setYPoly is repeatable): a second setYPoly(y) with the same y and no
\* other operation in between leaves K, YPowers, YDash, y_vec_neg and Kconst
\* as the first call left them, and every YPowers index set_Kconst reads
\* (4L + M + 1 + i for i < |K|) is inside YPowers' 8L + M + 2 entries.
C22_SetYPolyRepeatable ==
    [][(pc = "folded" /\ pc' \in {"folded", "crashed"} /\ y' = y
            /\ <<K, pc>>' # <<K, pc>>)
        => /\ pc' = "folded"
           /\ K' = K
           /\ YPowers' = YPowers
           /\ YDash' = YDash
           /\ y_vec_neg' = y_vec_neg
           /\ Kconst' = Kconst
           /\ KconstReadsInside(K', YPowers', ZKP_SERIALSIZE, ZKP_M)]_vars

(***************************************************************************)
(* Sparse rows.                                                            *)
(***************************************************************************)
\* v lists, in increasing template-row order, exactly the pairs
\* (i, w[i][row][k]) with a non-zero weight
IsSparseRow(v, w, row, k) ==
    /\ DOMAIN v = 0..(Cardinality({i \in DOMAIN w : w[i][row][k] # 0}) - 1)
    /\ {v[j] : j \in DOMAIN v}
          = {<<i, w[i][row][k]>> : i \in {ii \in DOMAIN w : w[ii][row][k] # 0}}
    /\ \A j1, j2 \in DOMAIN v : j1 < j2 => v[j1][1] < v[j2][1]

\* C24 (sparse row extraction): after set_s_poly, for every column k,
\* s_a1[k] lists in increasing row order the pairs (i, wA[i][0][k]) with a
\* non-zero weight and s_a2[k] the pairs (i, wA[i][1][k]); the same for
\* (s_b1, s_b2) over wB and (s_c1, s_c2) over wC.
C24_SparseRows ==
    Size(s_a1) = ZKP_N =>
        \A k \in 0..(ZKP_N - 1) :
            /\ IsSparseRow(s_a1[k], ZKP_wA, 0, k)
            /\ IsSparseRow(s_a2[k], ZKP_wA, 1, k)
            /\ IsSparseRow(s_b1[k], ZKP_wB, 0, k)
            /\ IsSparseRow(s_b2[k], ZKP_wB, 1, k)
            /\ IsSparseRow(s_c1[k], ZKP_wC, 0, k)
            /\ IsSparseRow(s_c2[k], ZKP_wC, 1, k)

====
